---- MODULE Spec2Model ----
(***************************************************************************)
(* Model of event_study/mk_events.py: mk_event_df(tic), which turns the     *)
(* recommendations CSV of one ticker into the table of upgrade/downgrade    *)
(* events.                                                                  *)
(*                                                                          *)
(* Text is modelled as the sequence of its character codes ("up" is         *)
(* <<117, 112>>), so that upper-casing, substring search, equality and the  *)
(* lexical order of group keys are computed character by character.         *)
(* A timestamp of the Date index is <<year, month, day, hour, minute>>.     *)
(* The data frame df is a sequence of rows; a row is a record holding the   *)
(* frame's index label and its columns at that point of the function.       *)
(* exc is the message of the exception that left the function (<<>> while  *)
(* none has), ret is <<frame>> once the function has returned (<<>> before).*)
(* The loader's columns are taken to be present and non-null (read_csv      *)
(* turns an empty field into NaN; such files are outside this model).       *)
(***************************************************************************)
EXTENDS Integers, Sequences, FiniteSets, TLC

VARIABLES pc, csv, df, exc, ret

vars == <<pc, csv, df, exc, ret>>

(* ------------------------------ bounds --------------------------------- *)

\* Largest number of rows of the recommendations file (Spec).
MaxRecs == 3

\* Largest number of rows of the recommendations file (SpecDedup).
MaxDupRecs == 2

(* ------------------------------- text ---------------------------------- *)

s_up == <<117, 112>>
s_down == <<100, 111, 119, 110>>
s_upgrade == <<117, 112, 103, 114, 97, 100, 101>>
s_downgrade == <<100, 111, 119, 110, 103, 114, 97, 100, 101>>
\* 'Unknown value for column `action`: '
s_unknown == <<85, 110, 107, 110, 111, 119, 110, 32, 118, 97, 108, 117, 101,
               32, 102, 111, 114, 32, 99, 111, 108, 117, 109, 110, 32, 96,
               97, 99, 116, 105, 111, 110, 96, 58, 32>>
s_main == <<109, 97, 105, 110>>
s_update == <<117, 112, 100, 97, 116, 101>>
\* "downgraded to sell"
s_downgraded == <<100, 111, 119, 110, 103, 114, 97, 100, 101, 100, 32, 116,
                  111, 32, 115, 101, 108, 108>>
s_UPGRADE == <<85, 80, 71, 82, 65, 68, 69>>
s_Ubs == <<85, 98, 115>>
s_UBS == <<85, 66, 83>>
s_citi == <<99, 105, 116, 105>>

\* Rows of the files of Spec: one timestamp a day, two firms.
Actions == {s_up, s_down, s_main, s_update}
Firms == {s_Ubs, s_citi}
\* 2020-01-01 09:30, 2020-03-15 09:30
Stamps == {<<2020, 1, 1, 9, 30>>, <<2020, 3, 15, 9, 30>>}
CsvRows == [Date : Stamps, firm : Firms, action : Actions]

\* Rows of the files of SpecDedup: two timestamps of one day and one of
\* another, firm names that differ in case only.
DupActions == {s_up, s_down, s_main, s_downgraded, s_UPGRADE}
DupFirms == {s_Ubs, s_UBS, s_citi}
\* 2020-01-01 09:30, 2020-01-01 16:00, 2020-03-15 09:30
DupStamps == {<<2020, 1, 1, 9, 30>>, <<2020, 1, 1, 16, 0>>, <<2020, 3, 15, 9, 30>>}
DupCsvRows == [Date : DupStamps, firm : DupFirms, action : DupActions]

\* Lexical order of two sequences of integers (Python's order of str, and
\* of timestamps field by field).
SeqLess(a, b) ==
    \E i \in 1..(Len(a) + 1) :
        /\ i <= Len(b)
        /\ \A j \in 1..(i - 1) : j <= Len(a) /\ a[j] = b[j]
        /\ (i = Len(a) + 1 \/ (i <= Len(a) /\ a[i] < b[i]))

\* str.upper() on one ASCII character.
UpperChar(c) == IF c >= 97 /\ c <= 122 THEN c - 32 ELSE c

\* Variant of StrUpper: the firm column is left as read.
StrKeep(s) == s

\* Series.str.upper()
StrUpper(s) == [i \in 1..Len(s) |-> UpperChar(s[i])]

\* sub occurs in s
Contains(s, sub) ==
    \E i \in 1..(Len(s) - Len(sub) + 1) : SubSeq(s, i, i + Len(sub) - 1) = sub

\* str.lower() on one ASCII character.
LowerChar(c) == IF c >= 65 /\ c <= 90 THEN c + 32 ELSE c

\* Variant of ContainsUpDown: the search ignores case (case=False).
ContainsUpDownAnyCase(s) ==
    LET low == [i \in 1..Len(s) |-> LowerChar(s[i])]
    IN  Contains(low, s_up) \/ Contains(low, s_down)

\* Series.str.contains('up|down'): a regular-expression search
ContainsUpDown(s) == Contains(s, s_up) \/ Contains(s, s_down)

\* n as w decimal digits, zero padded
Digits(n, w) == [i \in 1..w |-> 48 + ((n \div (10 ^ (w - i))) % 10)]

\* DatetimeIndex.strftime('%Y-%m-%d')
Strftime(ts) == Digits(ts[1], 4) \o <<45>> \o Digits(ts[2], 2) \o <<45>> \o Digits(ts[3], 2)

(* ------------------------------ frames --------------------------------- *)

\* The subsequence of the rows of f that satisfy Keep, in order.
RECURSIVE SelectRows(_, _)
SelectRows(f, keep) ==
    IF f = <<>> THEN <<>>
    ELSE (IF keep[1] THEN <<Head(f)>> ELSE <<>>)
         \o SelectRows(Tail(f), Tail(keep))

Key(r) == <<r.event_date, r.firm>>

KeyLess(k1, k2) ==
    \/ SeqLess(k1[1], k2[1])
    \/ k1[1] = k2[1] /\ SeqLess(k1[2], k2[2])

KeysOf(f) == {Key(f[i]) : i \in 1..Len(f)}

\* Variant of SortedKeys: groupby(sort=False), the keys in the order of
\* their first row in f.
AppearanceKeys(f) ==
    SelectRows([i \in 1..Len(f) |-> Key(f[i])],
               [i \in 1..Len(f) |-> \A j \in 1..(i - 1) : Key(f[j]) # Key(f[i])])

\* The keys ks in ascending order.
RECURSIVE Ascending(_)
Ascending(ks) ==
    IF ks = {} THEN <<>>
    ELSE LET least == CHOOSE k \in ks : \A other \in ks \ {k} : KeyLess(k, other)
         IN  <<least>> \o Ascending(ks \ {least})

\* The group keys in the order groupby(sort=True) yields them.
SortedKeys(f) == Ascending(KeysOf(f))

\* Variant of LastOfGroup: GroupBy.first()
FirstOfGroup(f, k) ==
    f[CHOOSE i \in 1..Len(f) :
          /\ Key(f[i]) = k
          /\ \A j \in 1..Len(f) : Key(f[j]) = k => i <= j]

\* Variant of LastOfGroup: the rows are filtered by action before the last
\* of the group is taken.
LastRelevantOfGroup(f, k) ==
    LET rel == {i \in 1..Len(f) :
                   /\ Key(f[i]) = k
                   /\ (Contains(f[i].action, s_up) \/ Contains(f[i].action, s_down))}
        all == {i \in 1..Len(f) : Key(f[i]) = k}
        from == IF rel # {} THEN rel ELSE all
    IN  f[CHOOSE i \in from : \A j \in from : j <= i]

\* GroupBy.last(): the last non-null value of each column of the group; the
\* columns hold no nulls here, so it is the row of the group's last
\* position in f
LastOfGroup(f, k) ==
    f[CHOOSE i \in 1..Len(f) :
          /\ Key(f[i]) = k
          /\ \A j \in 1..Len(f) : Key(f[j]) = k => j <= i]

\* df.groupby(['event_date', 'firm']).last().reset_index()
GroupLast(f) ==
    LET ks == SortedKeys(f)
    IN  [i \in 1..Len(ks) |->
            [idx |-> i - 1,
             event_date |-> ks[i][1],
             firm |-> ks[i][2],
             action |-> LastOfGroup(f, ks[i]).action]]

\* Variant of _mk_et: a value it does not know is passed through.
mk_et_passthrough(value) ==
    IF value = s_down THEN [raised |-> FALSE, val |-> s_downgrade]
    ELSE IF value = s_up THEN [raised |-> FALSE, val |-> s_upgrade]
    ELSE [raised |-> FALSE, val |-> value]

\* Variant of _mk_et: the exception's message leaves the value out.
mk_et_novalue(value) ==
    IF value = s_down THEN [raised |-> FALSE, val |-> s_downgrade]
    ELSE IF value = s_up THEN [raised |-> FALSE, val |-> s_upgrade]
    ELSE [raised |-> TRUE, val |-> s_unknown]

\* _mk_et(value): the returned event type, or the raised exception's message
_mk_et(value) ==
    IF value = s_down THEN [raised |-> FALSE, val |-> s_downgrade]
    ELSE IF value = s_up THEN [raised |-> FALSE, val |-> s_upgrade]
    ELSE [raised |-> TRUE, val |-> s_unknown \o value]

\* The orders of the rows S of f that ascend in Date, as index sequences.
RECURSIVE AscendingOrders(_, _)
AscendingOrders(f, S) ==
    IF S = {} THEN {<<>>}
    ELSE UNION {{<<i>> \o rest : rest \in AscendingOrders(f, S \ {i})} :
                i \in {m \in S : \A j \in S : ~SeqLess(f[j].Date, f[m].Date)}}

\* df.sort_index(): the frames df can become. The sort is not a stable one
\* (kind='quicksort'), so rows of equal Date may come out in any order.
SortIndexOutcomes(f) ==
    {[i \in 1..Len(f) |-> f[p[i]]] : p \in AscendingOrders(f, 1..Len(f))}

\* df.loc[cond]
Filter(f) == SelectRows(f, [i \in 1..Len(f) |-> ContainsUpDown(f[i].action)])

\* df['action'].apply(_mk_et): the results in row order
Applied(f) == [i \in 1..Len(f) |-> _mk_et(f[i].action)]

\* Variant of ResetIndex: the index left by the filter is kept, plus one.
KeepIndex(f) ==
    [i \in 1..Len(f) |->
        [event_id |-> f[i].idx + 1,
         index |-> f[i].idx,
         event_date |-> f[i].event_date,
         firm |-> f[i].firm,
         action |-> f[i].action,
         event_type |-> f[i].event_type]]

\* df.reset_index(inplace=True); df.index = df.index + 1; index.name = 'event_id'
ResetIndex(f) ==
    [i \in 1..Len(f) |->
        [event_id |-> (i - 1) + 1,
         index |-> f[i].idx,
         event_date |-> f[i].event_date,
         firm |-> f[i].firm,
         action |-> f[i].action,
         event_type |-> f[i].event_type]]

\* df[['firm', 'event_date', 'event_type']]
Project(f) ==
    [i \in 1..Len(f) |->
        [event_id |-> f[i].event_id,
         firm |-> f[i].firm,
         event_date |-> f[i].event_date,
         event_type |-> f[i].event_type]]

(* ------------------------------ actions -------------------------------- *)

RECURSIVE SeqsUpTo(_, _)
SeqsUpTo(S, n) ==
    IF n = 0 THEN {<<>>}
    ELSE LET shorter == SeqsUpTo(S, n - 1)
         IN  shorter \cup {Append(q, x) : q \in {t \in shorter : Len(t) = n - 1}, x \in S}

Init ==
    /\ pc = "step1"
    /\ csv \in SeqsUpTo(CsvRows, MaxRecs)
    /\ df = <<>>
    /\ exc = <<>>
    /\ ret = <<>>

\* Step 1: read the csv, keep the columns firm and action, index Date
Step1 ==
    /\ pc = "step1"
    /\ df' = csv
    /\ pc' = "step2"
    /\ UNCHANGED <<csv, exc, ret>>

\* Step 2: upper-case firm, derive event_date
Step2 ==
    /\ pc = "step2"
    /\ df' = [i \in 1..Len(df) |->
                [Date |-> df[i].Date,
                 firm |-> StrUpper(df[i].firm),
                 action |-> df[i].action,
                 event_date |-> Strftime(df[i].Date)]]
    /\ pc' = "step3_sort"
    /\ UNCHANGED <<csv, exc, ret>>

\* Step 3: df.sort_index(inplace=True)
Step3Sort ==
    /\ pc = "step3_sort"
    /\ df' \in SortIndexOutcomes(df)
    /\ pc' = "step3_group"
    /\ UNCHANGED <<csv, exc, ret>>

\* Step 3: keep the last row of every (event_date, firm) group
Step3Group ==
    /\ pc = "step3_group"
    /\ df' = GroupLast(df)
    /\ pc' = "step41"
    /\ UNCHANGED <<csv, exc, ret>>

\* Step 4.1: keep the rows whose action matches 'up|down'
Step41 ==
    /\ pc = "step41"
    /\ df' = Filter(df)
    /\ pc' = "step42"
    /\ UNCHANGED <<csv, exc, ret>>

\* Step 4.2: every value of the action column is classified
Step42 ==
    /\ pc = "step42"
    /\ \A i \in 1..Len(df) : ~Applied(df)[i].raised
    /\ df' = [i \in 1..Len(df) |->
                [idx |-> df[i].idx,
                 event_date |-> df[i].event_date,
                 firm |-> df[i].firm,
                 action |-> df[i].action,
                 event_type |-> Applied(df)[i].val]]
    /\ pc' = "step43"
    /\ UNCHANGED <<csv, exc, ret>>

\* Step 4.2: _mk_et raises at the first value it does not know; the
\* exception leaves mk_event_df, which returns nothing
Step42Raise ==
    /\ pc = "step42"
    /\ \E i \in 1..Len(df) :
          /\ Applied(df)[i].raised
          /\ \A j \in 1..(i - 1) : ~Applied(df)[j].raised
          /\ exc' = Applied(df)[i].val
    /\ pc' = "raised"
    /\ UNCHANGED <<csv, df, ret>>

\* Step 4.3: the event id index
Step43 ==
    /\ pc = "step43"
    /\ df' = ResetIndex(df)
    /\ pc' = "step44"
    /\ UNCHANGED <<csv, exc, ret>>

\* Step 4.4: select the columns and return
Step44 ==
    /\ pc = "step44"
    /\ df' = Project(df)
    /\ ret' = <<Project(df)>>
    /\ pc' = "returned"
    /\ UNCHANGED <<csv, exc>>

Next ==
    \/ Step1
    \/ Step2
    \/ Step3Sort
    \/ Step3Group
    \/ Step41
    \/ Step42
    \/ Step42Raise
    \/ Step43
    \/ Step44

Spec == Init /\ [][Next]_vars

\* The same function on files with several timestamps a day.
InitDedup ==
    /\ pc = "step1"
    /\ csv \in SeqsUpTo(DupCsvRows, MaxDupRecs)
    /\ df = <<>>
    /\ exc = <<>>
    /\ ret = <<>>

SpecDedup == InitDedup /\ [][Next]_vars

(* ------------------------ vocabulary of the properties ----------------- *)

Returned == pc = "returned"
Raised == pc = "raised"

\* The returned frame.
Output == ret[1]

\* Timestamp t1 is chronologically before t2.
Before(t1, t2) ==
    \E k \in 1..5 : t1[k] < t2[k] /\ \A m \in 1..(k - 1) : t1[m] = t2[m]

SameDay(t1, t2) == t1[1] = t2[1] /\ t1[2] = t2[2] /\ t1[3] = t2[3]

IsLower(c) == c >= 97 /\ c <= 122

\* Texts a and b differ in letter case at most.
SameLetters(a, b) ==
    /\ Len(a) = Len(b)
    /\ \A i \in 1..Len(a) :
          \/ a[i] = b[i]
          \/ IsLower(a[i]) /\ b[i] = a[i] - 32
          \/ IsLower(b[i]) /\ a[i] = b[i] - 32

\* Text s is the date of timestamp ts written YYYY-MM-DD.
IsoDateOf(s, ts) ==
    /\ Len(s) = 10
    /\ s[5] = 45 /\ s[8] = 45
    /\ (s[1] - 48) * 1000 + (s[2] - 48) * 100 + (s[3] - 48) * 10 + (s[4] - 48) = ts[1]
    /\ (s[6] - 48) * 10 + (s[7] - 48) = ts[2]
    /\ (s[9] - 48) * 10 + (s[10] - 48) = ts[3]

\* Text a is lexically before text b.
RECURSIVE TextBefore(_, _)
TextBefore(a, b) ==
    IF b = <<>> THEN FALSE
    ELSE IF a = <<>> THEN TRUE
    ELSE \/ Head(a) < Head(b)
         \/ Head(a) = Head(b) /\ TextBefore(Tail(a), Tail(b))

\* Records r1 and r2 of the file are of one (event_date, firm) group.
SameGroup(r1, r2) == SameDay(r1.Date, r2.Date) /\ SameLetters(r1.firm, r2.firm)

\* Output row o is the event of the group of record r.
Belongs(o, r) ==
    /\ IsoDateOf(o.event_date, r.Date)
    /\ \A n \in 1..Len(o.firm) : ~IsLower(o.firm[n])
    /\ SameLetters(o.firm, r.firm)

EventsOf(r) == {o \in 1..Len(Output) : Belongs(Output[o], r)}

\* Record i is the one chronologically last record of its group.
UniqueLast(i) ==
    \A j \in 1..Len(csv) :
        (j # i /\ SameGroup(csv[i], csv[j])) => Before(csv[j].Date, csv[i].Date)

\* No record of the group of record i is later than record i.
LastCandidate(i) ==
    \A j \in 1..Len(csv) : SameGroup(csv[i], csv[j]) => ~Before(csv[i].Date, csv[j].Date)

HasUp(a) == Contains(a, s_up)
HasDown(a) == Contains(a, s_down)
Irrelevant(a) == ~HasUp(a) /\ ~HasDown(a)

\* The event type the action text stands for, <<>> when for none.
ClassText(a) ==
    IF HasDown(a) THEN s_downgrade ELSE IF HasUp(a) THEN s_upgrade ELSE <<>>

\* _mk_et knows the value.
Mappable(a) == a = s_up \/ a = s_down

(* ------------------------------ properties ---------------------------- *)

\* C1: once the function has ended, every record that is the last of its
\* group and whose action contains "down" has an output row of type
\* "downgrade", and every such record whose action contains "up" (and not
\* "down") has an output row of type "upgrade".
C1_SubstringClassified ==
    (Returned \/ Raised) =>
        \A i \in 1..Len(csv) :
            (UniqueLast(i) /\ ~Irrelevant(csv[i].action)) =>
                /\ Returned
                /\ \E o \in EventsOf(csv[i]) :
                      Output[o].event_type = ClassText(csv[i].action)

\* C2: the returned frame has at most one row per (event_date, firm) group,
\* and the event type of the row of a group whose records have different
\* timestamps is the classification of the chronologically last record.
C2_DedupLast ==
    Returned =>
        /\ \A a, b \in 1..Len(Output) :
              a # b => <<Output[a].event_date, Output[a].firm>>
                           # <<Output[b].event_date, Output[b].firm>>
        /\ \A i \in 1..Len(csv) : Cardinality(EventsOf(csv[i])) <= 1
        /\ \A i \in 1..Len(csv) :
              UniqueLast(i) =>
                  \A o \in EventsOf(csv[i]) :
                      Output[o].event_type = ClassText(csv[i].action)

\* C2 witness: an "up" at 09:30 and a "down" later the same day for the
\* same firm, returned as one downgrade.
C2_Witness ==
    /\ Returned
    /\ \E i, j \in 1..Len(csv) :
          /\ SameGroup(csv[i], csv[j])
          /\ Before(csv[j].Date, csv[i].Date)
          /\ csv[j].action = s_up
          /\ csv[i].action = s_down
          /\ \E o \in EventsOf(csv[i]) : Output[o].event_type = s_downgrade

\* C3: the event ids of a returned frame of N rows are exactly 1..N.
C3_DenseIds ==
    Returned => {Output[o].event_id : o \in 1..Len(Output)} = 1..Len(Output)

\* C3 witness: three groups, the middle one in key order dropped by the
\* filter, the two others returned with ids 1 and 2.
C3_Witness ==
    /\ Returned
    /\ Len(Output) = 2
    /\ Output[1].event_id = 1
    /\ Output[2].event_id = 2
    /\ \E i \in 1..Len(csv) :
          /\ Irrelevant(csv[i].action)
          /\ EventsOf(csv[i]) = {}
          /\ KeyLess(<<Output[1].event_date, Output[1].firm>>,
                     <<Strftime(csv[i].Date), StrUpper(csv[i].firm)>>)
          /\ KeyLess(<<Strftime(csv[i].Date), StrUpper(csv[i].firm)>>,
                     <<Output[2].event_date, Output[2].firm>>)

\* C4: of two rows of the returned frame, the one with the smaller event id
\* has the earlier event_date or, on one date, the lexically smaller firm.
C4_KeyOrder ==
    Returned =>
        \A a, b \in 1..Len(Output) :
            Output[a].event_id < Output[b].event_id =>
                \/ TextBefore(Output[a].event_date, Output[b].event_date)
                \/ /\ Output[a].event_date = Output[b].event_date
                   /\ TextBefore(Output[a].firm, Output[b].firm)

\* C4 witness: three records supplied in descending key order, two of them
\* of one date, returned in ascending key order.
C4_Witness ==
    /\ Returned
    /\ Len(csv) = 3
    /\ Len(Output) = 3
    /\ Output[1].event_date = Output[2].event_date
    /\ Output[2].event_date # Output[3].event_date
    /\ Belongs(Output[3], csv[1])
    /\ Belongs(Output[2], csv[2])
    /\ Belongs(Output[1], csv[3])

\* C5: every event type of a returned frame is "upgrade" or "downgrade".
C5_TaxonomyClosed ==
    Returned =>
        \A o \in 1..Len(Output) : Output[o].event_type \in {s_upgrade, s_downgrade}

\* C5 witness: a returned frame with an upgrade and a downgrade.
C5_Witness ==
    /\ Returned
    /\ \E a, b \in 1..Len(Output) :
          Output[a].event_type = s_upgrade /\ Output[b].event_type = s_downgrade

\* C6: a group whose retained record has an action with neither "up" nor
\* "down" has no row in the returned frame while every group whose retained
\* record has one does, and an exception is never about such an action.
C6_RelevanceFilter ==
    /\ Returned =>
          \A i \in 1..Len(csv) :
              /\ (\A j \in 1..Len(csv) :
                      (SameGroup(csv[i], csv[j]) /\ LastCandidate(j))
                          => Irrelevant(csv[j].action))
                    => EventsOf(csv[i]) = {}
              /\ (\A j \in 1..Len(csv) :
                      (SameGroup(csv[i], csv[j]) /\ LastCandidate(j))
                          => ~Irrelevant(csv[j].action))
                    => EventsOf(csv[i]) # {}
    /\ Raised =>
          \E i \in 1..Len(csv) :
              /\ exc = s_unknown \o csv[i].action
              /\ ~Irrelevant(csv[i].action)

\* C6 witness: a record with action "UPGRADE" is dropped and the event of
\* another group is returned.
C6_Witness ==
    /\ Returned
    /\ Len(Output) = 1
    /\ \E i \in 1..Len(csv) :
          /\ csv[i].action = s_UPGRADE
          /\ EventsOf(csv[i]) = {}

\* C7: when a record whose action _mk_et does not know reaches the
\* classification, the function ends with an exception whose message ends
\* with that raw action and returns nothing; it goes on past the
\* classification only when there is no such record.
C7_FatalClassification ==
    /\ Raised =>
          /\ ret = <<>>
          /\ \E i \in 1..Len(df) :
                /\ ~Mappable(df[i].action)
                /\ exc = s_unknown \o df[i].action
                /\ \E j \in 1..Len(csv) : csv[j].action = df[i].action
    /\ pc \in {"step43", "step44"} => \A i \in 1..Len(df) : Mappable(df[i].action)
    /\ Returned => exc = <<>>

\* C7 witness: an "update" and an "up" reach the classification; the
\* function raises and the upgrade is not returned.
C7_Witness ==
    /\ Raised
    /\ ret = <<>>
    /\ exc = s_unknown \o s_update
    /\ \E i, j \in 1..Len(df) : df[i].action = s_up /\ df[j].action = s_update

\* C8: every firm of the returned frame is the upper-case form of the firm
\* of a record of that event's date, and the records of one date whose firms
\* differ in case only have one event at most between them.
C8_FirmCase ==
    Returned =>
        /\ \A o \in 1..Len(Output) : \E i \in 1..Len(csv) : Belongs(Output[o], csv[i])
        /\ \A i, j \in 1..Len(csv) :
              (SameDay(csv[i].Date, csv[j].Date) /\ SameLetters(csv[i].firm, csv[j].firm))
                  => Cardinality(EventsOf(csv[i]) \cup EventsOf(csv[j])) <= 1

\* C8 witness: "Ubs" and "UBS" on one day, returned as the one event of "UBS".
C8_Witness ==
    /\ Returned
    /\ Len(Output) = 1
    /\ Output[1].firm = s_UBS
    /\ \E i, j \in 1..Len(csv) :
          /\ csv[i].firm = s_Ubs
          /\ csv[j].firm = s_UBS
          /\ SameDay(csv[i].Date, csv[j].Date)
          /\ Mappable(csv[i].action)
          /\ Mappable(csv[j].action)

\* C9: the classification never raises: no file makes the function end
\* with the unknown-value exception.
C9_RaiseUnreachable == ~Raised

\* C10: a group whose chronologically last record has an action with
\* neither "up" nor "down" has no event, whatever its earlier records are;
\* and an exception is about the action of a last record of a group only.
C10_DedupBeforeFilter ==
    /\ Returned =>
          \A i \in 1..Len(csv) :
              (UniqueLast(i) /\ Irrelevant(csv[i].action)) => EventsOf(csv[i]) = {}
    /\ Raised =>
          /\ ret = <<>>
          /\ \E i \in 1..Len(csv) :
                LastCandidate(i) /\ exc = s_unknown \o csv[i].action

\* C10 witness: an "up" at 09:30 and a "main" later the same day for the
\* same firm: the function returns no event for them.
C10_Witness ==
    /\ Returned
    /\ \E i, j \in 1..Len(csv) :
          /\ SameGroup(csv[i], csv[j])
          /\ Before(csv[j].Date, csv[i].Date)
          /\ Mappable(csv[j].action)
          /\ csv[i].action = s_main
          /\ EventsOf(csv[i]) = {}

====
